---- MODULE Spec2Model ----
(***************************************************************************)
(* Model of the two Gambit command-line tools                              *)
(*   enummixed  (src/unnamed/part_000, "src/tools/enummixed/enummixed.cc") *)
(*   nfgipa     (src/src/tools/gt/nfgipa.cc)                               *)
(* and of the solving pipeline they call into.  The argument loop, the     *)
(* input-stream selection, the solver/renderer selection, PrintCliques and *)
(* the exception handler are translated from the two source files.  The    *)
(* solvers themselves (Gambit::Nash) are library code outside these files; *)
(* they are modelled from the design document and marked as such.          *)
(***************************************************************************)
EXTENDS Integers, Sequences, FiniteSets, TLC

(***************************************************************************)
(* Bounds of the model.                                                    *)
(***************************************************************************)
MaxArgs == 3        \* arguments after argv[0]
MaxEq == 3          \* equilibria a solve may confirm
MaxCliques == 2     \* cliques in a list handed directly to PrintCliques
MaxCliqueLen == 2   \* profiles per clique in such a list
MaxIter == 3        \* iteration cap of the polymatrix solver
MaxDelta == 2       \* largest update magnitude of one iteration
Den == 2            \* common denominator of the weights of a profile

(***************************************************************************)
(* Characters and strings.  A C string is a sequence of one-character      *)
(* strings, so that argv[i][0], argv[i][1] and atoi are computed as the    *)
(* code computes them.                                                     *)
(***************************************************************************)
Digits == <<"0", "1", "2", "3", "4", "5", "6", "7", "8", "9">>

IsDigit(c) == \E d \in 1..10 : Digits[d] = c

DigitVal(c) == (CHOOSE d \in 1..10 : Digits[d] = c) - 1

RECURSIVE AtoiDigits(_, _, _)
AtoiDigits(s, k, acc) ==
  IF k > Len(s) \/ ~IsDigit(s[k]) THEN acc
  ELSE AtoiDigits(s, k + 1, acc * 10 + DigitVal(s[k]))

\* atoi: optional sign, then the longest run of digits; 0 when there is none.
Atoi(s) ==
  IF s = <<>> THEN 0
  ELSE IF s[1] = "-" THEN 0 - AtoiDigits(s, 2, 0)
  ELSE IF s[1] = "+" THEN AtoiDigits(s, 2, 0)
  ELSE AtoiDigits(s, 1, 0)

RECURSIVE IntToStr(_)
\* lexical_cast<std::string>(int): the decimal digits, most significant first.
IntToStr(n) ==
  IF n < 0 THEN <<"-">> \o IntToStr(0 - n)
  ELSE IF n < 10 THEN <<Digits[n + 1]>>
  ELSE IntToStr(n \div 10) \o <<Digits[(n % 10) + 1]>>

ConvexPrefix == <<"c", "o", "n", "v", "e", "x", "-">>

\* The label with the clique counted from 0.
CliqueLabelFromZero(k) == ConvexPrefix \o IntToStr(k - 1)

\* "convex-" + lexical_cast<std::string>(cl)
CliqueLabel(k) == ConvexPrefix \o IntToStr(k)

NELabel == <<"N", "E">>

(***************************************************************************)
(* Command lines.  argv[0] is the program name; the other arguments are    *)
(* drawn from Tokens.  "g" names a game file that exists, every other      *)
(* token names no file; the program file itself may or may not be found    *)
(* under the name in argv[0].                                              *)
(***************************************************************************)
ProgName == <<"p">>
GameFile == <<"g">>

Tokens ==
  { <<"-", "d">>, <<"-", "D">>, <<"-", "L">>, <<"-", "c">>, <<"-", "q">>,
    <<"-", "V">>, <<"-", "h">>, <<"-", "?">>, <<"4">>, GameFile }

ArgVectors ==
  { <<ProgName>> \o a : a \in UNION { [1..n -> Tokens] : n \in 0..MaxArgs } }

ToolNames == {"enummixed", "nfgipa"}

\* Process statuses.  Running is "not exited yet"; ExitAbort is the status
\* of abort(), ExitCrash that of a fault in the C library.
Running == 0 - 1
ExitAbort == 134
ExitCrash == 139
DefaultDecimals == 6

(***************************************************************************)
(* Game Model: two players, payoff[p][r][c] is player p's payoff when      *)
(* player 1 plays row r and player 2 plays column c.                       *)
(***************************************************************************)
Players == {1, 2}

Coordination ==
  [n |-> <<2, 2>>,
   payoff |-> << << <<3, 0>>, <<0, 2>> >>, << <<2, 0>>, <<0, 3>> >> >>]

Dilemma ==
  [n |-> <<2, 2>>,
   payoff |-> << << <<3, 0>>, <<5, 1>> >>, << <<3, 5>>, <<0, 1>> >> >>]

OneDominated ==
  [n |-> <<3, 2>>,
   payoff |-> << << <<3, 0>>, <<0, 2>>, <<0 - 1, 0 - 1>> >>,
                 << <<2, 0>>, <<0, 3>>, <<0, 0>> >> >>]

Iterated ==
  [n |-> <<2, 3>>,
   payoff |-> << << <<1, 1, 0>>, <<0, 0, 2>> >>,
                 << <<0, 2, 1>>, <<3, 1, 0>> >> >>]

Games == <<Coordination, Dilemma, OneDominated, Iterated>>

NoGame == 0

Strategies(g, p) == 1..Games[g].n[p]

FullSupport(g) == [p \in Players |-> Strategies(g, p)]

Other(p) == 3 - p

\* Player p's payoff for own strategy s against the opponent's strategy o.
Payoff(g, p, s, o) ==
  IF p = 1 THEN Games[g].payoff[1][s][o] ELSE Games[g].payoff[2][o][s]

(***************************************************************************)
(* Dominance Reducer (section 4.1 of the design): strict dominance by a    *)
(* pure strategy, one removal per iteration, until nothing is dominated or *)
(* some player is left with a single strategy.                             *)
(***************************************************************************)
StrictlyDominated(g, supp, p, s) ==
  \E t \in supp[p] \ {s} :
    \A o \in supp[Other(p)] : Payoff(g, p, t, o) > Payoff(g, p, s, o)

DominatedPairs(g, supp) ==
  { ps \in Players \X (supp[1] \cup supp[2]) :
      /\ ps[2] \in supp[ps[1]]
      /\ StrictlyDominated(g, supp, ps[1], ps[2]) }

\* The removal of one iteration: lowest player first, lowest strategy first.
NextRemoval(g, supp) ==
  CHOOSE ps \in DominatedPairs(g, supp) :
    \A qs \in DominatedPairs(g, supp) :
      \/ ps[1] < qs[1]
      \/ (ps[1] = qs[1] /\ ps[2] <= qs[2])

RECURSIVE Eliminate(_, _)
Eliminate(g, supp) ==
  IF \E p \in Players : Cardinality(supp[p]) = 1 THEN supp
  ELSE IF DominatedPairs(g, supp) = {} THEN supp
  ELSE LET ps == NextRemoval(g, supp)
       IN Eliminate(g, [supp EXCEPT ![ps[1]] = @ \ {ps[2]}])

\* Reduce(game, flag): the surviving strategies of each player.
Reduce(g, flag) == IF flag THEN Eliminate(g, FullSupport(g)) ELSE FullSupport(g)

RECURSIVE SortedSeq(_)
\* The elements of a finite set of integers in increasing order.
SortedSeq(S) ==
  IF S = {} THEN <<>>
  ELSE LET m == CHOOSE x \in S : \A y \in S : x <= y
       IN <<m>> \o SortedSeq(S \ {m})

\* Reduced Game: for each player the mapping from reduced-strategy index to
\* original-strategy index.
IndexMap(supp) == [p \in Players |-> SortedSeq(supp[p])]

(***************************************************************************)
(* Mixed Strategy Profiles.  A weight is a numerator over the common       *)
(* denominator Den, so a distribution is a tuple of naturals summing to    *)
(* Den.                                                                    *)
(***************************************************************************)
RECURSIVE SumSeq(_)
SumSeq(w) == IF w = <<>> THEN 0 ELSE w[1] + SumSeq(Tail(w))

Distributions(n) == { w \in [1..n -> 0..Den] : SumSeq(w) = Den }

\* The profiles of a reduced game: one distribution per player over that
\* player's surviving strategies, indexed by reduced-strategy index.
ReducedProfiles(map) ==
  { <<w1, w2>> : w1 \in Distributions(Len(map[1])),
                 w2 \in Distributions(Len(map[2])) }

\* The weights left at their reduced-strategy indices.
TranslateUnmapped(g, map, prof) ==
  [p \in Players |->
     [s \in Strategies(g, p) |-> IF s <= Len(map[p]) THEN prof[p][s] ELSE 0]]

\* Translation of a reduced-game profile back to the original index space:
\* the weight of reduced index k goes to original index map[p][k], every
\* other original strategy gets weight zero.
Translate(g, map, prof) ==
  [p \in Players |->
     [s \in Strategies(g, p) |->
        IF \E k \in 1..Len(map[p]) : map[p][k] = s
        THEN prof[p][CHOOSE k \in 1..Len(map[p]) : map[p][k] = s]
        ELSE 0]]

(***************************************************************************)
(* Clique Detector (section 4.5 of the design).  Equilibria are numbered   *)
(* 1..n in the order they were confirmed; adj is a set of two-element sets *)
(* of adjacent equilibria.  A clique is a connected component.             *)
(***************************************************************************)
Edges(n) == { e \in SUBSET (1..n) : Cardinality(e) = 2 }

AdjRelations(n) == SUBSET Edges(n)

Neighbours(S, edges) == S \cup { b \in UNION edges : \E a \in S : {a, b} \in edges }

RECURSIVE Reach(_, _)
Reach(S, edges) ==
  IF Neighbours(S, edges) = S THEN S ELSE Reach(Neighbours(S, edges), edges)

MinOf(S) == CHOOSE x \in S : \A y \in S : x <= y

RECURSIVE OrderComponents(_)
OrderComponents(C) ==
  IF C = {} THEN <<>>
  ELSE LET c == CHOOSE c \in C : \A d \in C : MinOf(c) <= MinOf(d)
       IN <<SortedSeq(c)>> \o OrderComponents(C \ {c})

\* Grouping by direct adjacency only.
GetCliquesDirect(n, edges) == OrderComponents({ Neighbours({v}, edges) : v \in 1..n })

\* GetCliques: the components in order of their first equilibrium, each in
\* order of confirmation.
GetCliques(n, edges) == OrderComponents({ Reach({v}, edges) : v \in 1..n })

\* Every list of at most MaxCliques cliques of at most MaxCliqueLen profiles,
\* as PrintCliques may be handed by any caller, and one list long enough for
\* a two-digit clique index.
SeqsUpTo(S, n) == UNION { [1..k -> S] : k \in 0..n }

LongCliques == [k \in 1..11 |-> <<1>>]

CliqueLists ==
  SeqsUpTo(SeqsUpTo({1, 2}, MaxCliqueLen), MaxCliques) \cup {LongCliques}

(***************************************************************************)
(* State.                                                                  *)
(***************************************************************************)
VARIABLES
  tool,            \* which program runs
  argv,            \* its argument vector, argv[0] first
  i,               \* the loop variable of the argument loop
  pc,              \* position in main
  useFloat, uselrs, quiet, eliminate, showConnect, verbose, numDecimals,
  file_stream,     \* [open, name]: the std::ifstream of main
  input_stream,    \* "cin" or "file": what *input_stream refers to
  err,             \* what was written to std::cerr, in order
  thrown,          \* the exception the handler of main caught, or "none"
  exitcode,        \* Running, or the status the process ended with
  game,            \* the game read (an index into Games), or NoGame
  engine,          \* "pivot", "lrs", "ipa", or "none" before construction
  rendererDom,     \* numeric domain of the renderer
  solverDom,       \* numeric domain of the solver
  solverEliminate, \* the elimination flag the solver works with
  phase,           \* state of the solving call
  support,         \* surviving strategies of each player after reduction
  nEq, adj,        \* confirmed equilibria 1..nEq and their adjacency
  iter, converged, \* polymatrix solver: iterations done, result state
  cliques,         \* the list of cliques handed to PrintCliques
  cl, ci,          \* the loop variables cl and i of PrintCliques
  rendered,        \* the calls made to the renderer, in order
  redProfile,      \* a profile of the reduced game
  outProfile       \* the same profile in the original index space

cmdVars == <<tool, argv>>
flagVars == <<useFloat, uselrs, quiet, eliminate, showConnect, verbose, numDecimals>>
ioVars == <<file_stream, input_stream, err, thrown, exitcode>>
solverVars == <<engine, rendererDom, solverDom, solverEliminate>>
solveVars == <<game, phase, support, nEq, adj, iter, converged>>
printVars == <<cliques, cl, ci, rendered>>
trVars == <<redProfile, outProfile>>

vars == <<cmdVars, i, pc, flagVars, ioVars, solverVars, solveVars, printVars, trVars>>

Argc == Len(argv)

\* argv[k], k counted from 0 as in C.
Arg(k) == argv[k + 1]

NoFile == [open |-> FALSE, name |-> <<>>]

EmptyProfile == <<<<>>, <<>>>>

\* The state right after the declarations of main (lines 79-84 / 62-66).
Fresh ==
  /\ i = 1
  /\ pc = "args"
  /\ useFloat = FALSE /\ uselrs = FALSE /\ quiet = FALSE /\ eliminate = TRUE
  /\ showConnect = FALSE /\ verbose = FALSE /\ numDecimals = DefaultDecimals
  /\ file_stream = NoFile
  /\ input_stream = "cin"
  /\ err = <<>>
  /\ thrown = "none"
  /\ exitcode = Running
  /\ game = NoGame
  /\ engine = "none" /\ rendererDom = "none" /\ solverDom = "none"
  /\ solverEliminate = TRUE
  /\ phase = "Unsolved"
  /\ support = [p \in Players |-> {}]
  /\ nEq = 0 /\ adj = {}
  /\ iter = 0 /\ converged = FALSE
  /\ cliques = <<>> /\ cl = 1 /\ ci = 1
  /\ rendered = <<>>
  /\ redProfile = EmptyProfile /\ outProfile = EmptyProfile

Init ==
  /\ tool \in ToolNames
  /\ argv \in ArgVectors
  /\ Fresh

(***************************************************************************)
(* The argument loop.                                                      *)
(***************************************************************************)
\* The process ends with status code after writing msgs to std::cerr.
Terminate(code, msgs) ==
  /\ exitcode' = code
  /\ err' = err \o msgs
  /\ pc' = "done"

\* argv[i][1]; the terminating NUL of a one-character argument is "".
OptChar(a) == IF Len(a) >= 2 THEN a[2] ELSE ""

\* atoi(optarg) with optarg = argv[i + 1].  argv[argc] is a null pointer and
\* atoi of a null pointer is undefined: the C library either faults or, with
\* a parameter handler that returns, yields 0.
AtoiOutcomes(k) ==
  IF k < Argc
  THEN { [fault |-> FALSE, val |-> Atoi(Arg(k))] }
  ELSE { [fault |-> TRUE, val |-> 0], [fault |-> FALSE, val |-> 0] }

NoAtoi == { [fault |-> FALSE, val |-> 0] }

\* What one case of the switch ends with: "break", or the way the process
\* ends there.
EnumCase(c) ==
  CASE c = "v" -> [code |-> 1, msgs |-> <<"banner">>]
    [] c = "h" -> [code |-> 1, msgs |-> <<"banner", "usage">>]
    [] c = "?" -> [code |-> 1, msgs |-> <<"unknown-option">>]
    [] c \in {"d", "D", "L", "c", "S", "q"} -> [code |-> Running, msgs |-> <<>>]
    [] OTHER -> [code |-> ExitAbort, msgs |-> <<>>]

IpaCase(c) ==
  CASE c = "v" -> [code |-> 1, msgs |-> <<"banner">>]
    [] c = "h" -> [code |-> 1, msgs |-> <<"banner", "usage">>]
    [] c = "?" -> [code |-> 1, msgs |-> <<"unknown-option">>]
    [] c \in {"q", "V", "d", "S"} -> [code |-> Running, msgs |-> <<>>]
    [] OTHER -> [code |-> ExitAbort, msgs |-> <<>>]

\* One iteration of the loop of enummixed (lines 85-126).
EnumParseArg ==
  /\ tool = "enummixed"
  /\ pc = "args"
  /\ i < Argc
  /\ LET a == Arg(i)
         c == OptChar(a)
         end == EnumCase(c)
     IN IF a = <<>> \/ a[1] # "-"
        THEN /\ i' = i + 1
             /\ UNCHANGED <<pc, flagVars, err, exitcode>>
        ELSE \E r \in (IF c = "d" THEN AtoiOutcomes(i + 1) ELSE NoAtoi) :
               /\ useFloat' = (useFloat \/ c = "d")
               /\ numDecimals' = (IF c = "d" /\ ~r.fault THEN r.val ELSE numDecimals)
               /\ eliminate' = (eliminate /\ c # "D")
               /\ uselrs' = (uselrs \/ c = "L")
               /\ showConnect' = (showConnect \/ c = "c")
               /\ quiet' = (quiet \/ c = "q")
               /\ UNCHANGED verbose
               /\ IF r.fault THEN Terminate(ExitCrash, <<>>) /\ i' = i
                  ELSE IF end.code # Running THEN Terminate(end.code, end.msgs) /\ i' = i
                  ELSE i' = i + 1 /\ UNCHANGED <<pc, err, exitcode>>
  /\ UNCHANGED <<cmdVars, file_stream, input_stream, thrown, solverVars, solveVars, printVars, trVars>>

\* One iteration of the loop of nfgipa (lines 67-101).
IpaParseArg ==
  /\ tool = "nfgipa"
  /\ pc = "args"
  /\ i < Argc
  /\ LET a == Arg(i)
         c == OptChar(a)
         end == IpaCase(c)
     IN IF a = <<>> \/ a[1] # "-"
        THEN /\ i' = i + 1
             /\ UNCHANGED <<pc, flagVars, err, exitcode>>
        ELSE \E r \in (IF c = "d" THEN AtoiOutcomes(i + 1) ELSE NoAtoi) :
               /\ numDecimals' = (IF c = "d" /\ ~r.fault THEN r.val ELSE numDecimals)
               /\ quiet' = (quiet \/ c = "q")
               /\ verbose' = (verbose \/ c = "V")
               /\ UNCHANGED <<useFloat, eliminate, uselrs, showConnect>>
               /\ IF r.fault THEN Terminate(ExitCrash, <<>>) /\ i' = i
                  ELSE IF end.code # Running THEN Terminate(end.code, end.msgs) /\ i' = i
                  ELSE i' = i + 1 /\ UNCHANGED <<pc, err, exitcode>>
  /\ UNCHANGED <<cmdVars, file_stream, input_stream, thrown, solverVars, solveVars, printVars, trVars>>

\* Lines 128-130 / 103-105: the banner, unless -q.
PrintBannerStep ==
  /\ pc = "args"
  /\ ~(i < Argc)
  /\ err' = (IF quiet THEN err ELSE Append(err, "banner"))
  /\ pc' = "open"
  /\ UNCHANGED <<cmdVars, i, flagVars, file_stream, input_stream, thrown, exitcode,
                 solverVars, solveVars, printVars, trVars>>

(***************************************************************************)
(* Input selection (lines 132-143 / 107-118).  optind was set to argc - 1  *)
(* before the loop (line 84 / 66) and is not changed by it.                *)
(***************************************************************************)
Optind == Argc - 1

\* Whether file_stream.open(name) can succeed, can fail.
CanOpen(name) == name \in {GameFile, ProgName}
CanFailToOpen(name) == name # GameFile

OpenInput ==
  /\ pc = "open"
  /\ IF Optind < Argc
     THEN \E ok \in BOOLEAN :
            /\ ok => CanOpen(Arg(Optind))
            /\ ~ok => CanFailToOpen(Arg(Optind))
            /\ IF ok
               THEN /\ file_stream' = [open |-> TRUE, name |-> Arg(Optind)]
                    /\ input_stream' = "file"
                    /\ pc' = "read"
                    /\ UNCHANGED <<err, exitcode>>
               ELSE /\ Terminate(1, <<"perror">>)
                    /\ UNCHANGED <<file_stream, input_stream>>
     ELSE /\ pc' = "read"
          /\ UNCHANGED <<file_stream, input_stream, err, exitcode>>
  /\ UNCHANGED <<cmdVars, i, flagVars, thrown, solverVars, solveVars, printVars, trVars>>

(***************************************************************************)
(* The try block and its handler (lines 145-183 / 120-132).                *)
(***************************************************************************)
\* catch (std::runtime_error &e): "Error: " << e.what(), then return 1.
Catch(what) ==
  /\ thrown' = what
  /\ Terminate(1, <<"Error">>)

\* What ReadGame can make of the input: a game, or NoGame when the text is
\* not a well-formed game.  The program file is not a game file.
Readable ==
  IF input_stream = "file" /\ file_stream.name = ProgName
  THEN {NoGame}
  ELSE (1..Len(Games)) \cup {NoGame}

\* Line 146 / 121: Game game = ReadGame(*input_stream);
ReadGameStep ==
  /\ pc = "read"
  /\ \E g \in Readable :
       IF g = NoGame
       THEN /\ Catch("MalformedGame")
            /\ UNCHANGED game
       ELSE /\ game' = g
            /\ pc' = "construct"
            /\ UNCHANGED <<err, thrown, exitcode>>
  /\ UNCHANGED <<cmdVars, i, flagVars, file_stream, input_stream, solverVars,
                 phase, support, nEq, adj, iter, converged, printVars, trVars>>

\* The solvers are constructed from a renderer alone (lines 150, 157, 169):
\* no elimination flag is passed, so the solver works with its default.
SolverDefaultEliminate == TRUE

\* Lines 147-150, 153-157, 166-169: which solver and renderer are built.
EnumConstruct ==
  /\ tool = "enummixed"
  /\ pc = "construct"
  /\ IF uselrs
     THEN engine' = "lrs" /\ rendererDom' = "Rational" /\ solverDom' = "Rational"
     ELSE IF useFloat
     THEN engine' = "pivot" /\ rendererDom' = "double" /\ solverDom' = "double"
     ELSE engine' = "pivot" /\ rendererDom' = "Rational" /\ solverDom' = "Rational"
  /\ solverEliminate' = SolverDefaultEliminate
  /\ pc' = "solve"
  /\ UNCHANGED <<cmdVars, i, flagVars, ioVars, solveVars, printVars, trVars>>

\* Lines 122-125 of nfgipa: a double renderer and the IPA solver.
IpaConstruct ==
  /\ tool = "nfgipa"
  /\ pc = "construct"
  /\ engine' = "ipa" /\ rendererDom' = "double" /\ solverDom' = "double"
  /\ UNCHANGED solverEliminate
  /\ pc' = "solve"
  /\ UNCHANGED <<cmdVars, i, flagVars, ioVars, solveVars, printVars, trVars>>

(***************************************************************************)
(* The enumeration path inside Solve / SolveDetailed (section 4 of the     *)
(* design): Unsolved -> Reducing -> Enumerating -> Pairing.                *)
(***************************************************************************)
SolveBegin ==
  /\ pc = "solve" /\ engine \in {"pivot", "lrs"}
  /\ phase = "Unsolved"
  /\ phase' = "Reducing"
  /\ UNCHANGED <<cmdVars, i, pc, flagVars, ioVars, solverVars, game, support,
                 nEq, adj, iter, converged, printVars, trVars>>

SolveReduce ==
  /\ pc = "solve"
  /\ phase = "Reducing"
  /\ support' = Reduce(game, solverEliminate)
  /\ phase' = "Enumerating"
  /\ UNCHANGED <<cmdVars, i, pc, flagVars, ioVars, solverVars, game,
                 nEq, adj, iter, converged, printVars, trVars>>

SolveEnumerate ==
  /\ pc = "solve"
  /\ phase = "Enumerating"
  /\ phase' = "Pairing"
  /\ UNCHANGED <<cmdVars, i, pc, flagVars, ioVars, solverVars, game, support,
                 nEq, adj, iter, converged, printVars, trVars>>

\* NumericInstabilityError: floating-point pivoting only.  It is a
\* std::runtime_error and reaches the handler of main.
SolveEnumerateFail ==
  /\ pc = "solve"
  /\ phase = "Enumerating"
  /\ solverDom = "double"
  /\ phase' = "Failed"
  /\ Catch("NumericInstability")
  /\ UNCHANGED <<cmdVars, i, flagVars, file_stream, input_stream, solverVars,
                 game, support, nEq, adj, iter, converged, printVars, trVars>>

\* The profiles 1..n, each handed to the renderer with the given label.
RenderAll(n) == [k \in 1..n |-> [profile |-> k, label |-> NELabel]]

\* Pairing confirms the equilibria and emits each through the renderer, then
\* the solve call returns to main.
SolvePair ==
  /\ pc = "solve"
  /\ phase = "Pairing"
  /\ \E n \in 0..MaxEq :
       \E e \in AdjRelations(n) :
         /\ nEq' = n
         /\ adj' = e
         /\ rendered' = rendered \o RenderAll(n)
  /\ pc' = "aftersolve"
  /\ UNCHANGED <<cmdVars, i, flagVars, ioVars, solverVars, game, phase, support,
                 iter, converged, cliques, cl, ci, trVars>>

(***************************************************************************)
(* Back in main of enummixed.                                              *)
(***************************************************************************)
\* Cliques asked for whether or not -c was given.
ConnectAlways == engine # "lrs"

\* Whether main asks the solution for its cliques: never after the lrs
\* solver (line 151), otherwise if (showConnect) (lines 160, 172).
ConnectRequested == engine # "lrs" /\ showConnect

\* Lines 151, 160-164, 172-176.
EnumAfterSolve ==
  /\ pc = "aftersolve"
  /\ IF ConnectRequested
     THEN /\ phase' = "GroupingCliques"
          /\ cliques' = GetCliques(nEq, adj)
          /\ cl' = 1
          /\ pc' = "print_outer"
     ELSE /\ phase' = "Solved"
          /\ pc' = "return"
          /\ UNCHANGED <<cliques, cl>>
  /\ UNCHANGED <<cmdVars, i, flagVars, ioVars, solverVars, game, support,
                 nEq, adj, iter, converged, ci, rendered, trVars>>

\* PrintCliques, line 41: for (int cl = 1; cl <= p_cliques.size(); cl++)
PrintCliquesOuter ==
  /\ pc = "print_outer"
  /\ IF cl <= Len(cliques)
     THEN /\ ci' = 1
          /\ pc' = "print_inner"
          /\ UNCHANGED phase
     ELSE /\ pc' = "return"
          /\ phase' = "Solved"
          /\ UNCHANGED ci
  /\ UNCHANGED <<cmdVars, i, flagVars, ioVars, solverVars, game, support,
                 nEq, adj, iter, converged, cliques, cl, rendered, trVars>>

\* PrintCliques, lines 42-45: the inner loop and its Render call.
PrintCliquesInner ==
  /\ pc = "print_inner"
  /\ IF ci <= Len(cliques[cl])
     THEN /\ rendered' = Append(rendered, [profile |-> cliques[cl][ci],
                                           label |-> CliqueLabel(cl)])
          /\ ci' = ci + 1
          /\ UNCHANGED <<cl, pc>>
     ELSE /\ cl' = cl + 1
          /\ pc' = "print_outer"
          /\ UNCHANGED <<ci, rendered>>
  /\ UNCHANGED <<cmdVars, i, flagVars, ioVars, solverVars, solveVars, cliques, trVars>>

\* Line 178 / 127: return 0;
Return0 ==
  /\ pc = "return"
  /\ Terminate(0, <<>>)
  /\ UNCHANGED <<cmdVars, i, flagVars, file_stream, input_stream, thrown,
                 solverVars, solveVars, printVars, trVars>>

(***************************************************************************)
(* The approximation path inside NashIPAStrategySolver::Solve (section 4.6 *)
(* of the design): Unsolved -> Iterating -> Solved | NotConverged.         *)
(***************************************************************************)
Tolerance == 1

IpaBegin ==
  /\ pc = "solve" /\ engine = "ipa"
  /\ phase = "Unsolved"
  /\ phase' = "Iterating"
  /\ iter' = 0
  /\ UNCHANGED <<cmdVars, i, pc, flagVars, ioVars, solverVars, game, support,
                 nEq, adj, converged, printVars, trVars>>

\* The state an iteration whose update has magnitude delta ends in.
IpaOutcome(delta, done) ==
  IF delta < Tolerance THEN "Solved"
  ELSE IF done >= MaxIter THEN "NotConverged"
  ELSE "Iterating"

\* One update of the profile.  On either terminal state the single profile is
\* emitted and Solve returns it with the convergence indicator.
IpaIterate ==
  /\ pc = "solve"
  /\ phase = "Iterating"
  /\ \E delta \in 0..MaxDelta :
       LET out == IpaOutcome(delta, iter + 1)
       IN /\ iter' = iter + 1
          /\ phase' = out
          /\ converged' = (out = "Solved")
          /\ IF out = "Iterating"
             THEN UNCHANGED <<pc, nEq, rendered>>
             ELSE /\ nEq' = 1
                  /\ rendered' = rendered \o RenderAll(1)
                  /\ pc' = "return"
  /\ UNCHANGED <<cmdVars, i, flagVars, ioVars, solverVars, game, support, adj,
                 cliques, cl, ci, trVars>>

(***************************************************************************)
(* The emission of one profile computed over a reduced game: reduction,    *)
(* a profile of the reduced game, translation back, rendering.             *)
(***************************************************************************)
TrReduce ==
  /\ pc = "tr_reduce"
  /\ support' = Reduce(game, solverEliminate)
  /\ pc' = "tr_solve"
  /\ UNCHANGED <<cmdVars, i, flagVars, ioVars, solverVars, game, phase, nEq, adj,
                 iter, converged, printVars, trVars>>

TrSolve ==
  /\ pc = "tr_solve"
  /\ \E prof \in ReducedProfiles(IndexMap(support)) : redProfile' = prof
  /\ pc' = "tr_translate"
  /\ UNCHANGED <<cmdVars, i, flagVars, ioVars, solverVars, solveVars, printVars,
                 outProfile>>

TrEmit ==
  /\ pc = "tr_translate"
  /\ outProfile' = Translate(game, IndexMap(support), redProfile)
  /\ rendered' = Append(rendered, [profile |-> outProfile', label |-> NELabel])
  /\ pc' = "tr_done"
  /\ UNCHANGED <<cmdVars, i, flagVars, ioVars, solverVars, solveVars,
                 cliques, cl, ci, redProfile>>

(***************************************************************************)
(* Specifications.                                                         *)
(***************************************************************************)
\* Both tools, from the command line to the exit status.
Next ==
  \/ EnumParseArg
  \/ IpaParseArg
  \/ PrintBannerStep
  \/ OpenInput
  \/ ReadGameStep
  \/ EnumConstruct
  \/ IpaConstruct
  \/ SolveBegin
  \/ SolveReduce
  \/ SolveEnumerate
  \/ SolveEnumerateFail
  \/ SolvePair
  \/ EnumAfterSolve
  \/ PrintCliquesOuter
  \/ PrintCliquesInner
  \/ IpaBegin
  \/ IpaIterate
  \/ Return0

Spec == Init /\ [][Next]_vars

\* nfgipa alone.  main is sequential code: whenever a step is possible the
\* program takes one.
InitIpa == Init /\ tool = "nfgipa"

NextIpa ==
  \/ IpaParseArg
  \/ PrintBannerStep
  \/ OpenInput
  \/ ReadGameStep
  \/ IpaConstruct
  \/ IpaBegin
  \/ IpaIterate
  \/ Return0

SpecIpa == InitIpa /\ [][NextIpa]_vars /\ WF_vars(NextIpa)

\* The run "enummixed -c g" at the call of PrintCliques (line 163 / 175),
\* with any list of cliques as the argument.
AtPrintCliques ==
  /\ tool = "enummixed"
  /\ argv = <<ProgName, <<"-", "c">>, GameFile>>
  /\ i = 3
  /\ pc = "print_outer"
  /\ useFloat = FALSE /\ uselrs = FALSE /\ quiet = FALSE /\ eliminate = TRUE
  /\ showConnect = TRUE /\ verbose = FALSE /\ numDecimals = DefaultDecimals
  /\ file_stream = [open |-> TRUE, name |-> GameFile]
  /\ input_stream = "file"
  /\ err = <<"banner">>
  /\ thrown = "none"
  /\ exitcode = Running
  /\ game = 1
  /\ engine = "pivot" /\ rendererDom = "Rational" /\ solverDom = "Rational"
  /\ solverEliminate = SolverDefaultEliminate
  /\ phase = "GroupingCliques"
  /\ support = FullSupport(1)
  /\ nEq = 0 /\ adj = {}
  /\ iter = 0 /\ converged = FALSE
  /\ cl = 1 /\ ci = 1
  /\ rendered = <<>>
  /\ redProfile = EmptyProfile /\ outProfile = EmptyProfile

InitPrint == AtPrintCliques /\ cliques \in CliqueLists

NextPrint ==
  \/ PrintCliquesOuter
  \/ PrintCliquesInner

SpecPrint == InitPrint /\ [][NextPrint]_vars

\* The emission of one profile, for every game and either setting of the
\* elimination flag of the reducer.
InitTranslate ==
  /\ tool = "enummixed"
  /\ argv = <<ProgName, GameFile>>
  /\ i = 2
  /\ pc = "tr_reduce"
  /\ useFloat = FALSE /\ uselrs = FALSE /\ quiet = FALSE /\ eliminate = TRUE
  /\ showConnect = FALSE /\ verbose = FALSE /\ numDecimals = DefaultDecimals
  /\ file_stream = [open |-> TRUE, name |-> GameFile]
  /\ input_stream = "file"
  /\ err = <<"banner">>
  /\ thrown = "none"
  /\ exitcode = Running
  /\ game \in 1..Len(Games)
  /\ engine = "pivot" /\ rendererDom = "Rational" /\ solverDom = "Rational"
  /\ solverEliminate \in BOOLEAN
  /\ phase = "Reducing"
  /\ support = [p \in Players |-> {}]
  /\ nEq = 0 /\ adj = {}
  /\ iter = 0 /\ converged = FALSE
  /\ cliques = <<>> /\ cl = 1 /\ ci = 1
  /\ rendered = <<>>
  /\ redProfile = EmptyProfile /\ outProfile = EmptyProfile

NextTranslate ==
  \/ TrReduce
  \/ TrSolve
  \/ TrEmit

SpecTranslate == InitTranslate /\ [][NextTranslate]_vars

(***************************************************************************)
(* Properties.                                                             *)
(***************************************************************************)
\* The places (k, j) of a list of cliques.
Places(cs) == { kj \in (1..Len(cs)) \X (1..MaxEq + 1) : kj[2] <= Len(cs[kj[1]]) }

\* The cliques have been computed by GetCliques in this run.
CliquesComputed ==
  \/ phase = "GroupingCliques"
  \/ (phase = "Solved" /\ ConnectRequested)

\* C1: the cliques GetCliques returns partition the confirmed equilibria
\* 1..nEq: every equilibrium is at exactly one place of exactly one clique,
\* every member of a clique is a confirmed equilibrium, no clique is empty.
C1_CliquesPartition ==
  CliquesComputed =>
    /\ \A e \in 1..nEq :
         Cardinality({ kj \in Places(cliques) : cliques[kj[1]][kj[2]] = e }) = 1
    /\ \A kj \in Places(cliques) : cliques[kj[1]][kj[2]] \in 1..nEq
    /\ \A k \in 1..Len(cliques) : Len(cliques[k]) >= 1

\* Three equilibria in a chain 1 - 2 - 3 grouped into a single clique.
C1_Witness ==
  /\ phase = "GroupingCliques"
  /\ nEq = 3
  /\ adj = {{1, 2}, {2, 3}}
  /\ cliques = <<<<1, 2, 3>>>>

\* A label "convex-<k>" for some k.
IsConvexLabel(l) == Len(l) > Len(ConvexPrefix) /\ SubSeq(l, 1, Len(ConvexPrefix)) = ConvexPrefix

\* C2 (as claimed): a run of enummixed that was asked for connectedness
\* (-c) and ended with status 0 has emitted every confirmed equilibrium
\* under a clique label, whatever the other options.
C2_CliquesEmittedWhenRequested ==
  (tool = "enummixed" /\ showConnect /\ pc = "done" /\ exitcode = 0) =>
    \A e \in 1..nEq :
      \E k \in 1..Len(rendered) :
        rendered[k].profile = e /\ IsConvexLabel(rendered[k].label)

\* The reducing phase of this run is over.
Reduced == phase \in {"Enumerating", "Pairing", "GroupingCliques", "Solved", "Failed"}

\* C3 (as claimed): with elimination disabled at the interface (-D) the
\* reducing phase removes no strategy of any player.
C3_NoRemovalWhenDisabled ==
  (tool = "enummixed" /\ ~eliminate /\ Reduced) => support = FullSupport(game)

\* The numeric domain the caller selected.
SelectedDomain == IF useFloat THEN "double" ELSE "Rational"

\* C4 (as claimed): solver and renderer of enummixed both work in the domain
\* the caller selected with -d.
C4_SelectedDomainUsed ==
  (tool = "enummixed" /\ engine # "none") =>
    /\ solverDom = SelectedDomain
    /\ rendererDom = SelectedDomain

\* No argument after argv[0] names a file: there is none, or each starts
\* with '-'.
NoFileArgument == \A k \in 1..(Argc - 1) : Arg(k) # <<>> /\ Arg(k)[1] = "-"

\* C5 (as claimed): without a file argument the file stream is never opened,
\* no open is attempted, and the game is read from standard input.
C5_StdinWithoutFileArgument ==
  NoFileArgument =>
    /\ ~file_stream.open
    /\ input_stream = "cin"
    /\ ~(\E k \in 1..Len(err) : err[k] = "perror")

\* The options the usage text of each tool documents (PrintHelp).
Documented ==
  IF tool = "enummixed" THEN {"d", "D", "L", "c", "h", "q", "v"}
  ELSE {"d", "h", "q", "V", "v"}

\* The run ended in the argument loop at an option no usage text names.
UnrecognisedOption ==
  /\ pc = "done"
  /\ game = NoGame /\ ~file_stream.open /\ thrown = "none"
  /\ i < Argc
  /\ Arg(i) # <<>> /\ Arg(i)[1] = "-"
  /\ OptChar(Arg(i)) \notin Documented

\* The run ended because the input file could not be opened.
Unopenable ==
  /\ pc = "done"
  /\ ~(i < Argc) /\ ~file_stream.open /\ exitcode = 1

Said(m) == \E k \in 1..Len(err) : err[k] = m

\* C6 (as claimed): a failure of reading, enumeration or approximation is
\* reported as "Error: <what>" and ends with a non-zero status; status 0 is
\* returned only when the game was read and the solver finished without an
\* error; an unrecognised option and an unopenable file are reported with a
\* message as well and end with a non-zero status.
C6_FailuresReported ==
  /\ (pc = "done" /\ thrown # "none") => (Said("Error") /\ exitcode # 0)
  /\ exitcode = 0 =>
       /\ game # NoGame
       /\ thrown = "none"
       /\ phase \in {"Solved", "NotConverged"}
  /\ Unopenable => Said("perror")
  /\ UnrecognisedOption =>
       /\ exitcode # 0
       /\ (Said("unknown-option") \/ Said("Error") \/ Said("perror"))

\* The polymatrix solver has returned.
IpaReturned == engine = "ipa" /\ phase \in {"Solved", "NotConverged"}

\* What whoever runs nfgipa sees of a finished run that differs from a
\* converged one: a converged run ends with status 0, at most the banner on
\* std::cerr, and one profile rendered under the usual label.
ReportsNonConvergence ==
  \/ exitcode # 0
  \/ \E k \in 1..Len(err) : err[k] # "banner"
  \/ Len(rendered) # 1
  \/ \E k \in 1..Len(rendered) : rendered[k].label # NELabel

\* C7 (as claimed): the approximation path makes at most MaxIter updates,
\* raises nothing once the game was read, ends in Solved or NotConverged
\* with exactly one profile, and a run that ended in NotConverged can be
\* told from a converged one by its caller.
C7_NonConvergenceObservable ==
  /\ engine = "ipa" => (iter <= MaxIter /\ thrown = "none")
  /\ IpaReturned =>
       /\ Len(rendered) = 1
       /\ (phase = "NotConverged" => iter = MaxIter)
  /\ (pc = "done" /\ phase = "NotConverged") => ReportsNonConvergence

\* C7, the part about the solver alone: Unsolved -> Iterating -> Solved or
\* NotConverged, always reached, after at most MaxIter updates, with one
\* profile emitted, nothing raised, and a convergence indicator returned
\* that tells the two terminal states apart.
C7_SolverTerminates ==
  /\ [](engine = "ipa" => iter <= MaxIter)
  /\ [](engine = "ipa" => thrown = "none")
  /\ [](IpaReturned =>
          /\ Len(rendered) = 1
          /\ nEq = 1
          /\ converged = (phase = "Solved")
          /\ (phase = "NotConverged" => iter = MaxIter))
  /\ [][engine = "ipa" =>
          \/ phase' = phase
          \/ (phase = "Unsolved" /\ phase' = "Iterating")
          \/ (phase = "Iterating" /\ phase' \in {"Solved", "NotConverged"})]_vars
  /\ ((engine = "ipa" /\ pc = "solve") ~> IpaReturned)

\* Restriction of an original-space profile to the surviving strategies.
Restrict(map, orig) ==
  [p \in Players |-> [k \in 1..Len(map[p]) |-> orig[p][map[p][k]]]]

\* The strategies of player p the reducer removed.
Removed(p) == Strategies(game, p) \ support[p]

\* C8: an emitted profile is indexed by the strategies of the original game,
\* gives weight zero to every removed strategy, and each player's weights
\* sum to the whole (Den / Den = 1), as they did in the reduced game.
C8_ProfileInOriginalSpace ==
  pc = "tr_done" =>
    \A k \in 1..Len(rendered) :
      \A p \in Players :
        LET w == rendered[k].profile[p]
        IN /\ DOMAIN w = Strategies(game, p)
           /\ \A s \in Removed(p) : w[s] = 0
           /\ SumSeq(w) = Den
           /\ SumSeq(redProfile[p]) = Den
           /\ Restrict(IndexMap(support), rendered[k].profile)[p] = redProfile[p]

\* A mixed profile of the game with one dominated strategy for player 1,
\* after that strategy was removed.
C8_Witness ==
  /\ pc = "tr_done"
  /\ game = 3
  /\ Removed(1) # {}
  /\ outProfile[1][1] > 0 /\ outProfile[1][2] > 0

\* Renderer calls made before clique k is reached.
RECURSIVE Offset(_, _)
Offset(cs, k) == IF k <= 1 THEN 0 ELSE Offset(cs, k - 1) + Len(cs[k - 1])

\* l reads "convex-" followed by the decimal numeral of k.
LabelNames(l, k) ==
  /\ IsConvexLabel(l)
  /\ LET num == SubSeq(l, Len(ConvexPrefix) + 1, Len(l))
     IN /\ \A d \in 1..Len(num) : IsDigit(num[d])
        /\ (Len(num) > 1 => num[1] # "0")
        /\ Atoi(num) = k

\* C9: PrintCliques hands the profiles to the renderer clique by clique from
\* clique 1 on, inside a clique in stored order, each exactly once and under
\* the label "convex-<k>" of its clique k; nothing else is rendered, and an
\* empty list renders nothing.
C9_PrintOrder ==
  LET total == Offset(cliques, Len(cliques) + 1)
  IN /\ Len(rendered) <= total
     /\ pc = "return" => Len(rendered) = total
     /\ \A k \in 1..Len(cliques) :
          \A j \in 1..Len(cliques[k]) :
            Offset(cliques, k) + j <= Len(rendered) =>
              /\ rendered[Offset(cliques, k) + j].profile = cliques[k][j]
              /\ LabelNames(rendered[Offset(cliques, k) + j].label, k)

\* Two cliques, the first with two profiles, all printed.
C9_Witness ==
  /\ pc = "return"
  /\ Len(cliques) = 2
  /\ Len(cliques[1]) = 2
  /\ Len(rendered) = 3

\* The steps of the enumeration path.
EnumEdges ==
  { <<"Unsolved", "Reducing">>, <<"Reducing", "Enumerating">>,
    <<"Enumerating", "Pairing">>, <<"Enumerating", "Failed">>,
    <<"Pairing", "GroupingCliques">>, <<"Pairing", "Solved">>,
    <<"GroupingCliques", "Solved">> }

\* C10: the solving call of enummixed moves only along Unsolved -> Reducing
\* -> Enumerating -> Pairing -> (GroupingCliques) -> Solved, or from
\* Enumerating to Failed; GroupingCliques is entered only when -c was given,
\* Failed only with the floating-point domain selected, and Solved and
\* Failed are never left.
C10_EnumerationPhases ==
  [][tool = "enummixed" =>
       /\ (phase' # phase => <<phase, phase'>> \in EnumEdges)
       /\ (phase' = "GroupingCliques" => showConnect)
       /\ (phase' = "Failed" => (useFloat /\ solverDom = "double"))]_vars

\* A run that went through GroupingCliques and reached Solved.
C10_Witness ==
  /\ tool = "enummixed"
  /\ phase = "Solved"
  /\ showConnect
  /\ Len(cliques) >= 1
  /\ exitcode = 0

====
